---------------------------- MODULE Spec2Model ----------------------------
(***************************************************************************)
(* A model of sdelay.py: the SoftDelay object that sizes a nested 8-bit    *)
(* counter delay loop for the picoblaze and emits it as assembly text.     *)
(*                                                                         *)
(* Numbers.  The program is Python 2.  clk_speed and cycles_per_instr are  *)
(* Python ints; delay_time is either a Python int (whole seconds, as in    *)
(* SoftDelay(10, 2, 2)) or a float (as in 2 * (10**-3)).  The model keeps  *)
(* a delay as a whole number of microseconds together with its Python      *)
(* type, because `/` on two ints floors in Python 2 and divides exactly    *)
(* on floats.  Times are kept as exact fractions of microseconds           *)
(* (cycles / MHz); every quantity of the request domain below is far       *)
(* under 2^31, two distinct times of the domain differ by more than one    *)
(* part in 10^8, and equal fractions round to the same double, so the      *)
(* comparisons of the program's doubles agree with the comparisons of the  *)
(* exact fractions.                                                        *)
(***************************************************************************)
EXTENDS Integers, Sequences, FiniteSets

VARIABLES
    args,       \* the arguments SoftDelay(clk_speed, cycles_per_instr, delay_time) was called with
    self,       \* the object's fields: clk_speed, cycles_per_instr, delay_time, outer_loops
    pc,         \* "constructed", "set_outer_loops", "done" (generate returned), "raised"
    out,        \* the lines of the text generate() returned (<<>> before it returns)
    err,        \* the exception that left generate(), "" when none
    regs,       \* picoblaze run of the emitted text: the 8-bit registers
    zero,       \* picoblaze run: the ZERO flag
    ip,         \* picoblaze run: index in out of the next line to execute (0: not started)
    executed    \* picoblaze run: instructions executed so far

vars == <<args, self, pc, out, err, regs, zero, ip, executed>>

(***************************************************************************)
(* The request domain.                                                     *)
(***************************************************************************)
MaxClk == 10        \* clock speeds -1 .. MaxClk MHz
MaxCycles == 2      \* cycles_per_instr arguments 0 .. MaxCycles
MaxSec == 7         \* int delays -1 .. MaxSec seconds
MaxExp == 21        \* float delays 2^0 .. 2^MaxExp microseconds
MaxOuter == 520     \* cap of outer_loops for the searches that never end

Million == 1000000

ClkSpeeds == -1 .. MaxClk
CyclesArgs == 0 .. MaxCycles

IntDelay(sec) == [us |-> sec * Million, kind |-> "int"]
FloatDelay(us) == [us |-> us, kind |-> "float"]

\* 2 * (10**-3), the 2 ms request of __main__, and 2.0 and 0.0 seconds
ScenarioDelays == {FloatDelay(2000), FloatDelay(2 * Million), FloatDelay(0)}

DelayTimes ==
    {IntDelay(s) : s \in -1 .. MaxSec}
        \cup {FloatDelay(2 ^ k) : k \in 0 .. MaxExp}
        \cup ScenarioDelays

Requests ==
    [clk_speed : ClkSpeeds, cycles_per_instr : CyclesArgs, delay_time : DelayTimes]

(***************************************************************************)
(* SoftDelay.__init__ (lines 13-19).                                       *)
(***************************************************************************)
__init__(clk_speed, cycles_per_instr, delay_time) ==
    [clk_speed |-> clk_speed,
     cycles_per_instr |-> 2,
     delay_time |-> delay_time,
     outer_loops |-> 1]

(***************************************************************************)
(* The properties of the object.  s is the object (the value of self).     *)
(***************************************************************************)

\* i_sec of dummy_i: two Python ints, so `/` floors.
i_sec(s) == (s.clk_speed * Million) \div s.cycles_per_instr

\* dummy_i = i_sec * delay_time.  With an int delay the product is a Python
\* int.  With a float delay it is the float i_sec * (us / 10^6); the factor
\* 10^6 of i_sec cancels (cycles_per_instr divides clk_speed * 10^6), which
\* leaves clk_speed * us / cycles_per_instr, kept as a fraction.
dummy_i(s) ==
    IF s.delay_time.kind = "int"
    THEN [num |-> i_sec(s) * (s.delay_time.us \div Million), den |-> 1, kind |-> "int"]
    ELSE [num |-> s.clk_speed * s.delay_time.us, den |-> s.cycles_per_instr,
          kind |-> "float"]

\* The loop test of register_count: dummy_i / 2**(registers-1) > 256**registers.
\* An int dummy_i is floor-divided, a float one divided exactly.
NeedsMoreRegisters(d, registers) ==
    IF d.kind = "int"
    THEN (d.num \div (2 ^ (registers - 1))) > 256 ^ registers
    ELSE d.num > d.den * (2 ^ (registers - 1)) * (256 ^ registers)

RECURSIVE CountRegisters(_, _)
CountRegisters(d, registers) ==
    IF NeedsMoreRegisters(d, registers)
    THEN CountRegisters(d, registers + 1)
    ELSE registers

register_count(s) == CountRegisters(dummy_i(s), 1)

\* register_array: register_count zeros, then registers[-1] = 256 - outer_loops.
register_array(s) ==
    [i \in 1 .. register_count(s) |->
        IF i = register_count(s) THEN 256 - s.outer_loops ELSE 0]

\* The body of actual_i for a loop of `registers` registers and `outer_loops`
\* outer loops.
InstructionCount(registers, outer_loops) ==
    registers
        + ((256 ^ (registers - 1)) * 2) * outer_loops
        + outer_loops * 2

actual_i(s) == InstructionCount(register_count(s), s.outer_loops)

actual_cycles(s) == actual_i(s) * s.cycles_per_instr

\* actual_time = float(actual_cycles) / (clk_speed * 10^6) seconds, kept as the
\* fraction actual_cycles / clk_speed of microseconds.  clk_speed = 0 raises
\* ZeroDivisionError.
actual_time(s) == [num |-> actual_cycles(s), den |-> s.clk_speed]

\* t < us microseconds, for a fraction t with a non-zero denominator.
TimeLess(t, us) ==
    IF t.den > 0 THEN t.num < us * t.den ELSE t.num > us * t.den

\* A loop test that multiplies by cycles_per_instr a second time.
SearchContinues_CyclesTwice(s) ==
    TimeLess([num |-> actual_cycles(s) * s.cycles_per_instr, den |-> s.clk_speed],
             s.delay_time.us)

\* A loop test written with <= for <.
SearchContinues_OrEqual(s) ==
    LET t == actual_time(s)
    IN  IF t.den > 0
        THEN t.num <= s.delay_time.us * t.den
        ELSE t.num >= s.delay_time.us * t.den

\* The loop test of set_outer_loops: actual_time < delay_time.
SearchContinues(s) == TimeLess(actual_time(s), s.delay_time.us)

\* `self.outer_loops =+ 1` for `+= 1`.
NextOuterLoops_Assign(outer_loops) == 1

\* self.outer_loops += 1
NextOuterLoops(outer_loops) == outer_loops + 1

(***************************************************************************)
(* The text of generate() (lines 126-150), as a sequence of lines.  A line *)
(* is a tuple whose first element says what the line is.  Numbers printed  *)
(* in hexadecimal are kept as their printed form: a sign and the digits.   *)
(***************************************************************************)

\* The hexadecimal digits of n >= 0, most significant first ("0" for 0).
RECURSIVE HexDigits(_)
HexDigits(n) ==
    IF n < 16 THEN <<n>> ELSE Append(HexDigits(n \div 16), n % 16)

\* format(v, "x") and format(v, "#x"): "-" for a negative v, "0x" with "#x",
\* then the digits of abs(v).
FormatHex(v, prefix) ==
    [neg |-> v < 0, prefix |-> prefix, digits |-> HexDigits(IF v < 0 THEN 0 - v ELSE v)]

\* The number a printed hexadecimal form reads as.
RECURSIVE HexValue(_)
HexValue(digits) ==
    IF digits = <<>> THEN 0
    ELSE 16 * HexValue(SubSeq(digits, 1, Len(digits) - 1)) + digits[Len(digits)]

ParseHex(h) == IF h.neg THEN 0 - HexValue(h.digits) ELSE HexValue(h.digits)

\* The four lines of the header comment, with the values format() prints in each.
HeaderText(s) ==
    << <<";", "The following code block is a software delay loop that delays">>,
       <<";", "for approximately", s.delay_time, "seconds on a", s.clk_speed, "MHz picoblaze">>,
       <<";", "takes", s.cycles_per_instr, "clock cycles. Exactly", actual_i(s), "instructions">>,
       <<";", actual_cycles(s), "clock cycles. The exact time delay should be", actual_time(s)>> >>

\* A LOAD loop that starts at range(1, ...).
LoadLines_FromOne(s) ==
    [i \in 1 .. Len(register_array(s)) - 1 |->
        <<"LOAD", FormatHex(i, FALSE), FormatHex(register_array(s)[i + 1], TRUE)>>]

\* for i in range(0, len(self.register_array)): "LOAD S{0:x}, {1:#x}\n"
LoadLines(s) ==
    [i \in 1 .. Len(register_array(s)) |->
        <<"LOAD", FormatHex(i - 1, FALSE), FormatHex(register_array(s)[i], TRUE)>>]

\* out += "\n"; out += "loop:\n"
LabelLines == << <<"">>, <<"loop:">> >>

\* An increment loop that appends the JUMP before the ADD.
IncrementLines_JumpFirst(s) ==
    [k \in 1 .. 2 * Len(register_array(s)) |->
        IF k % 2 = 0
        THEN <<"ADD", FormatHex((k - 1) \div 2, FALSE), [neg |-> FALSE, prefix |-> TRUE, digits |-> <<0, 1>>]>>
        ELSE <<"JUMP", "NZ", "loop">>]

\* for i in range(0, len(self.register_array)): "    ADD S{0:x}, 0x01\n" and
\* "    JUMP NZ, loop\n"
IncrementLines(s) ==
    [k \in 1 .. 2 * Len(register_array(s)) |->
        IF k % 2 = 1
        THEN <<"ADD", FormatHex((k - 1) \div 2, FALSE), [neg |-> FALSE, prefix |-> TRUE, digits |-> <<0, 1>>]>>
        ELSE <<"JUMP", "NZ", "loop">>]

GenerateText(s) == HeaderText(s) \o LoadLines(s) \o LabelLines \o IncrementLines(s)

(***************************************************************************)
(* The object: construction, then generate().                              *)
(***************************************************************************)
NotRunning == regs = <<>> /\ zero = FALSE /\ ip = 0 /\ executed = 0

\* The state after SoftDelay(...) returned, for a request of `requests`.
Constructed(requests) ==
    /\ args \in requests
    /\ self = __init__(args.clk_speed, args.cycles_per_instr, args.delay_time)
    /\ pc = "constructed"
    /\ out = <<>>
    /\ err = ""
    /\ NotRunning

Init == Constructed(Requests)

\* generate() is called and enters set_outer_loops().
Generate ==
    /\ pc = "constructed"
    /\ pc' = "set_outer_loops"
    /\ UNCHANGED <<args, self, out, err, regs, zero, ip, executed>>

\* The loop test of set_outer_loops divides by clk_speed * 10^6.
DivideByZero ==
    /\ pc = "set_outer_loops"
    /\ self.clk_speed = 0
    /\ pc' = "raised"
    /\ err' = "ZeroDivisionError"
    /\ UNCHANGED <<args, self, out, regs, zero, ip, executed>>

\* One turn of `while self.actual_time < self.delay_time: self.outer_loops += 1`.
SetOuterLoops ==
    /\ pc = "set_outer_loops"
    /\ self.clk_speed # 0
    /\ SearchContinues(self)
    /\ self.outer_loops < MaxOuter
    /\ self' = [self EXCEPT !.outer_loops = NextOuterLoops(@)]
    /\ UNCHANGED <<args, pc, out, err, regs, zero, ip, executed>>

\* The loop test fails: set_outer_loops returns, generate builds the text and
\* returns it.
Emit ==
    /\ pc = "set_outer_loops"
    /\ self.clk_speed # 0
    /\ ~SearchContinues(self)
    /\ out' = GenerateText(self)
    /\ pc' = "done"
    /\ UNCHANGED <<args, self, err, regs, zero, ip, executed>>

Next == Generate \/ DivideByZero \/ SetOuterLoops \/ Emit

Spec == Init /\ [][Next]_vars

\* The interpreter runs the loop of set_outer_loops without pause.
FairSpec == Spec /\ WF_vars(SetOuterLoops) /\ WF_vars(Emit)

(***************************************************************************)
(* A picoblaze running the emitted text: 8-bit registers, ADD wraps modulo *)
(* 256 and sets ZERO when the result is 0, JUMP NZ is taken while ZERO is  *)
(* clear.  Every register the loop uses is loaded before the loop, so the  *)
(* registers' values at power-on do not matter; they start at 0.           *)
(***************************************************************************)
RegisterWidth == 256

\* The requests whose emitted program is run, at 1 MHz: one register with 1, 2
\* and 64 outer loops, two registers with 1 and 2, three registers with 1.  At
\* 0 MHz generate() raises and there is no text to run.
RunDelays == {2, 16, 512, 1024, 2048, 262150}
RunRequests ==
    {[clk_speed |-> clk, cycles_per_instr |-> 2, delay_time |-> FloatDelay(us)] :
        clk \in {0, 1}, us \in RunDelays}

\* The line after the "loop:" label.
LoopTarget(text) == 1 + (CHOOSE i \in 1 .. Len(text) : text[i] = <<"loop:">>)

Halted == pc = "done" /\ ip = Len(out) + 1

PowerOn ==
    /\ pc = "done"
    /\ ip = 0
    /\ ip' = 1
    /\ regs' = [r \in 0 .. 15 |-> 0]
    /\ zero' = FALSE
    /\ executed' = 0
    /\ UNCHANGED <<args, self, pc, out, err>>

\* A comment, an empty line or a label: not an instruction.
SkipLine ==
    /\ ip \in 1 .. Len(out)
    /\ out[ip][1] \in {";", "", "loop:"}
    /\ ip' = ip + 1
    /\ UNCHANGED <<args, self, pc, out, err, regs, zero, executed>>

ExecLoad ==
    /\ ip \in 1 .. Len(out)
    /\ out[ip][1] = "LOAD"
    /\ regs' = [regs EXCEPT ![ParseHex(out[ip][2])] = ParseHex(out[ip][3]) % RegisterWidth]
    /\ ip' = ip + 1
    /\ executed' = executed + 1
    /\ UNCHANGED <<args, self, pc, out, err, zero>>

ExecAdd ==
    /\ ip \in 1 .. Len(out)
    /\ out[ip][1] = "ADD"
    /\ LET r == ParseHex(out[ip][2])
           v == (regs[r] + ParseHex(out[ip][3])) % RegisterWidth
       IN /\ regs' = [regs EXCEPT ![r] = v]
          /\ zero' = (v = 0)
    /\ ip' = ip + 1
    /\ executed' = executed + 1
    /\ UNCHANGED <<args, self, pc, out, err>>

ExecJump ==
    /\ ip \in 1 .. Len(out)
    /\ out[ip][1] = "JUMP"
    /\ ip' = IF zero THEN ip + 1 ELSE LoopTarget(out)
    /\ executed' = executed + 1
    /\ UNCHANGED <<args, self, pc, out, err, regs, zero>>

RunInit == Constructed(RunRequests)

RunNext == Next \/ PowerOn \/ SkipLine \/ ExecLoad \/ ExecAdd \/ ExecJump

RunSpec == RunInit /\ [][RunNext]_vars

(***************************************************************************)
(* The properties.                                                         *)
(***************************************************************************)
Done == pc = "done"

\* A valid request: positive clock speed, cycles per instruction and delay.
ValidRequest ==
    /\ args.clk_speed > 0
    /\ args.cycles_per_instr > 0
    /\ args.delay_time.us > 0

\* What the header of the returned text reports.
ReportedCyclesPerInstr == out[3][3]
ReportedInstructions == out[3][5]
ReportedCycles == out[4][2]
ReportedTime == out[4][4]

\* The lines of the returned text that are `op` lines.
LinesOf(op) == {i \in 1 .. Len(out) : out[i][1] = op}

\* The elapsed time, in microseconds, of a loop of n registers and k outer loops
\* on the object's clock is less than the requested delay.
LoopTooShort(n, k) ==
    InstructionCount(n, k) * self.cycles_per_instr < self.delay_time.us * self.clk_speed

HeaderLines == 4

\* C1: for every valid request, once generate() has returned, the elapsed time
\* the header reports (actual_i * cycles_per_instr / (clk_speed * 10^6)) is at
\* least the requested delay_time.
C1_NeverUnderDelays ==
    Done /\ ValidRequest =>
        /\ ReportedTime.num = ReportedInstructions * ReportedCyclesPerInstr
        /\ ReportedTime.den = self.clk_speed
        /\ ReportedTime.num >= self.delay_time.us * ReportedTime.den

\* C1 witness: a 7 second request at 10 MHz whose search ran 267 turns.
C1_Witness ==
    /\ Done /\ ValidRequest
    /\ args.clk_speed = 10 /\ args.delay_time = IntDelay(7)
    /\ self.outer_loops = 268

\* C2 (as claimed): the instruction count the header reports equals the number
\* of instructions a picoblaze executes when it runs the emitted text to the
\* end, for every register count and every outer_loops.
C2_ReportedCountIsExecutedCount ==
    Halted => executed = ReportedInstructions

\* C3 (as claimed): for every valid request the finalized configuration has
\* outer_loops in 1..256, register_array of length register_count with every
\* inner element 0 and the last 256 - outer_loops, and every emitted LOAD
\* value in 0..255.
C3_RegistersInRange ==
    Done /\ ValidRequest =>
        /\ self.outer_loops \in 1 .. 256
        /\ Len(register_array(self)) = register_count(self)
        /\ \A i \in 1 .. register_count(self) - 1 : register_array(self)[i] = 0
        /\ register_array(self)[register_count(self)] = 256 - self.outer_loops
        /\ \A i \in LinesOf("LOAD") : ParseHex(out[i][3]) \in 0 .. 255

\* C4 (as claimed): for every valid request, the exact elapsed time with
\* outer_loops reduced by 1 and the same register_count is less than
\* delay_time, also when the search stopped at outer_loops = 1.
C4_MinimalFromOne ==
    Done /\ ValidRequest => LoopTooShort(register_count(self), self.outer_loops - 1)

\* C4 (amended): for every valid request whose search stopped at an
\* outer_loops above its starting value 1, the exact elapsed time with
\* outer_loops reduced by 1 and the same register_count is less than
\* delay_time.
C4_MinimalAboveOne ==
    Done /\ ValidRequest /\ self.outer_loops > 1 =>
        LoopTooShort(register_count(self), self.outer_loops - 1)

\* C4 witness: a search that stopped above 1 at a time equal to the delay.
C4_Witness ==
    /\ Done /\ ValidRequest /\ self.outer_loops > 1
    /\ actual_cycles(self) = self.delay_time.us * self.clk_speed

\* C5 (as claimed): for every valid request the search with register_count
\* registers stops at outer_loops <= 256, and no smaller register count reaches
\* delay_time with any outer_loops in 1..256.
C5_RegisterCountMinimal ==
    Done /\ ValidRequest =>
        /\ self.outer_loops <= 256
        /\ \A n \in 1 .. register_count(self) - 1 :
               \A k \in 1 .. 256 : LoopTooShort(n, k)

\* C6 (as claimed): the timing uses the caller's cycles_per_instr: the
\* instruction rate is clk_speed * 10^6 / cycles_per_instr and the reported
\* cycle count is the instruction count times cycles_per_instr, for every
\* positive cycles_per_instr passed to SoftDelay.
C6_UsesCallersCycles ==
    Done /\ ValidRequest =>
        /\ i_sec(self) = (args.clk_speed * Million) \div args.cycles_per_instr
        /\ ReportedCyclesPerInstr = args.cycles_per_instr
        /\ ReportedCycles = ReportedInstructions * args.cycles_per_instr

\* C7 (as claimed): a request with a non-positive clock speed, cycles per
\* instruction or delay takes no search step and gets no text: it ends in a
\* DomainError.
C7_InvalidRequestRejected ==
    ~ValidRequest =>
        /\ self.outer_loops = 1
        /\ out = <<>>
        /\ pc \in {"constructed", "set_outer_loops", "raised"}
        /\ pc = "raised" => err = "DomainError"

Scenario2ms == [clk_speed |-> 10, cycles_per_instr |-> 2, delay_time |-> FloatDelay(2000)]
Scenario2s == [clk_speed |-> 10, cycles_per_instr |-> 2, delay_time |-> IntDelay(2)]

\* The text has n LOAD lines, one label and 2n instruction lines, and
\* outer_loops is the first value whose elapsed time reaches the delay.
ScenarioResult(n) ==
    /\ register_count(self) = n
    /\ Cardinality(LinesOf("LOAD")) = n
    /\ Cardinality(LinesOf("loop:")) = 1
    /\ Cardinality(LinesOf("ADD") \cup LinesOf("JUMP")) = 2 * n
    /\ ~LoopTooShort(n, self.outer_loops)
    /\ \A k \in 1 .. self.outer_loops - 1 : LoopTooShort(n, k)

\* C8 (as claimed): at 10 MHz and 2 cycles per instruction, a delay of 0.002 s
\* gives 1 register (1 LOAD line, the label, 2 instruction lines) and a delay
\* of 2 s gives 2 registers (2 LOAD lines, the label, 4 instruction lines).
C8_ScenariosAsClaimed ==
    /\ Done /\ args = Scenario2ms => ScenarioResult(1)
    /\ Done /\ args = Scenario2s => ScenarioResult(2)

\* C8 (amended): at 10 MHz and 2 cycles per instruction, a delay of 0.002 s
\* gives 2 registers (2 LOAD lines, the label, 4 instruction lines) with 20
\* outer loops, and a delay of 2 s gives 3 registers (3 LOAD lines, the label,
\* 6 instruction lines) with 77 outer loops, each the first value at which the
\* elapsed time of actual_time reaches the delay.
C8_ScenariosAsCoded ==
    /\ Done /\ args = Scenario2ms => ScenarioResult(2) /\ self.outer_loops = 20
    /\ Done /\ args = Scenario2s => ScenarioResult(3) /\ self.outer_loops = 77

\* C8 witness: the 2 s request of __main__ has returned its text.
C8_Witness == Done /\ args = Scenario2s /\ Len(out) > 0

\* C9 (as claimed): the text is the header, register_count LOAD lines, the
\* label, and register_count ADD/JUMP pairs, and nothing else: header lines +
\* register_count + 1 + 2 * register_count lines.
C9_LineCountAsClaimed ==
    Done =>
        LET n == register_count(self)
        IN  /\ Len(out) = HeaderLines + n + 1 + 2 * n
            /\ out[HeaderLines + n + 1] = <<"loop:">>

\* C9 (amended): the text is, in order, the 4 header lines, register_count
\* LOAD lines for registers 0 .. register_count-1 with the values of
\* register_array, one empty line, the "loop:" label, then for each register
\* in ascending order an ADD of 0x01 followed by JUMP NZ, loop: header lines +
\* register_count + 2 + 2 * register_count lines.
C9_TextLayout ==
    Done =>
        LET n == register_count(self)
            base == HeaderLines + n + 2
        IN  /\ Len(out) = HeaderLines + n + 2 + 2 * n
            /\ \A i \in 1 .. HeaderLines : out[i][1] = ";"
            /\ \A i \in 1 .. n :
                   /\ out[HeaderLines + i][1] = "LOAD"
                   /\ ParseHex(out[HeaderLines + i][2]) = i - 1
                   /\ ParseHex(out[HeaderLines + i][3]) = register_array(self)[i]
            /\ out[HeaderLines + n + 1] = <<"">>
            /\ out[HeaderLines + n + 2] = <<"loop:">>
            /\ \A i \in 1 .. n :
                   /\ out[base + 2 * i - 1][1] = "ADD"
                   /\ ParseHex(out[base + 2 * i - 1][2]) = i - 1
                   /\ ParseHex(out[base + 2 * i - 1][3]) = 1
                   /\ out[base + 2 * i] = <<"JUMP", "NZ", "loop">>

\* C9 witness: a returned text for three registers.
C9_Witness == Done /\ register_count(self) = 3 /\ Len(out) = 15

\* C10: for every valid request the search of set_outer_loops ends: a turn
\* of the loop adds 1 to outer_loops, leaves register_count as it was and
\* makes the exact elapsed time strictly larger, and generate() returns.
C10_SearchTerminates ==
    /\ [][ValidRequest /\ self' # self =>
            /\ self'.outer_loops = self.outer_loops + 1
            /\ register_count(self') = register_count(self)
            /\ actual_cycles(self') > actual_cycles(self)]_vars
    /\ (ValidRequest /\ pc = "set_outer_loops") ~> Done

\* C10 witness: a valid request whose search took more than 256 turns and ended.
C10_Witness == Done /\ ValidRequest /\ self.outer_loops > 257

=============================================================================
